---- MODULE Spec2Model ----
(***************************************************************************)
(* Model of the Copernicus Dataspace client (src/src/copernicus_api.py):   *)
(* the token exchange, the catalogue query and its query string, the       *)
(* single download and the thread-pool batch download.                     *)
(***************************************************************************)
EXTENDS Integers, Sequences, FiniteSets, TLC

(* ------------------------------ bounds --------------------------------- *)

\* Largest number of rows of the products frame handed to download_all.
MaxRecords == 2

\* Default of the `threads` parameter of download_all.
DefaultThreads == 4

\* Values of multiprocessing.cpu_count() the model considers.
CpuCounts == {2, 4}

\* Values of the `threads` argument: negative, zero (unset), 1 .. number of
\* records, and the default.
ThreadsArgs == (-1 .. MaxRecords) \cup {DefaultThreads}

\* HTTP status codes the download endpoint answers with.
HttpOk == 200

Statuses == {HttpOk, 401, 404}

\* What the identity service can answer to the token POST.
TokenResponses == {"transport", "non2xx", "notjson", "nokey", "ok"}

(* ---------------------------- exceptions ------------------------------- *)

\* An exception is its class and the items its message names.
NoExc == [type |-> "none", mentions |-> {}]

Exc(t, m) == [type |-> t, mentions |-> m]

\* A frame: its columns and its rows (a row maps every column to a cell).
EmptyFrame == [cols |-> {}, rows |-> <<>>]

\* The outcome of a call: the exception raised (NoExc: none) and the frame
\* returned.
Raise(t, m) == [exc |-> Exc(t, m), value |-> EmptyFrame]

Return(frame) == [exc |-> NoExc, value |-> frame]

(* ------------------------------- state --------------------------------- *)

VARIABLES
    products,    \* the frame given to download_all: sequence of [Id, Name]
    threads,     \* the `threads` argument
    main,        \* position of the thread that called download_all
    threads_,    \* max_workers handed to ThreadPoolExecutor
    raised,      \* the exception that left download_all (NoExc: none)
    queue,       \* work queue of the pool: submitted, not yet started
    pc,          \* per record: position of its download_worker call
    attempts,    \* per record: calls of download_worker
    exchanges,   \* per record: token POSTs made on its behalf
    requests,    \* per record: download GETs made
    token,       \* per record: the token its GET carried (0: none)
    resp,        \* per record: what the services answered
    tokenExc,    \* per record: what left _get_access_token
    future,      \* per record: the Future of its submit
    fs,          \* out_dir: file name -> [exists, data]
    pbar,        \* the progress bar's count
    qpc,         \* position of a query call
    qargs,       \* arguments of the query call
    query_str,   \* the query string built, as its sequence of clauses
    qanswer,     \* what the catalogue answered to the GET
    qjson,       \* the frame made of the catalogue's products
    qret,        \* what query returned or raised
    fpc,         \* position of a direct filter_by_attributes call
    fkwargs,     \* the predicates of the direct call
    fret         \* what the direct call returned or raised

dlvars == <<products, threads, main, threads_, raised, queue, pc, attempts,
            exchanges, requests, token, resp, tokenExc, future, fs, pbar>>

qvars == <<qpc, qargs, query_str, qanswer, qjson, qret>>

fvars == <<fpc, fkwargs, fret>>

vars == <<dlvars, qvars, fvars>>

Recs == 1 .. Len(products)

\* File names: a record's Name is one of 1 .. MaxRecords.
NameSet == 1 .. MaxRecords

NoFile == [exists |-> FALSE, data |-> <<>>]

NoResp == [token |-> "none", status |-> 0, stream |-> "none"]

Pending == [state |-> "pending", exc |-> NoExc]

Finished(e) == [state |-> "finished", exc |-> e]

(* --------------------------- pure functions ---------------------------- *)

\* The body the download endpoint streams for product uid, as
\* iter_content yields it: data chunks and a zero-length chunk.
Body(uid) == <<uid, 0, uid>>

\* `if chunk: file.write(chunk)` over the first k chunks of the body.
Written(uid, k) == SelectSeq(SubSeq(Body(uid), 1, k), LAMBDA c : c # 0)

\* _get_access_token: what it raises (NoExc when it returns a token) for
\* an answer of the identity service.  The try block covers the POST and
\* raise_for_status only; r.json()["access_token"] is outside it.
GetAccessTokenExc(r) ==
    CASE r = "transport" -> Exc("AuthorizationError", {<<"hint", 0>>})
      [] r = "non2xx"    -> Exc("AuthorizationError", {<<"hint", 0>>})
      [] r = "notjson"   -> Exc("JSONDecodeError", {})
      [] r = "nokey"     -> Exc("KeyError", {<<"key", 0>>})
      [] OTHER           -> NoExc

\* The exception download_by_id raises for a non-200 answer.
HttpError(status, uid) ==
    Exc("DownloadError", {<<"status", status>>, <<"uid", uid>>})

\* The exception download_by_id raises when streaming to the file fails.
StreamError(name) == Exc("DownloadError", {<<"file", name>>})

\* A worker that names the product but leaves the text of e out.
WorkerErrorNoCause(name, e) == Exc("DownloadError", {<<"name", name>>})

\* download_worker's `except Exception as e: raise DownloadError(...)`:
\* the message names the product and carries the text of e.
WorkerError(name, e) ==
    Exc("DownloadError", {<<"name", name>>} \cup e.mentions)

\* A worker that reads the loop variable of the submit loop when it runs:
\* every task sees the last row's name.
OutFileLateBound(i) == products[Len(products)].Name

\* out_file = out_dir / prod_name, opened as str(out_path) + ".zip".
OutFile(i) == products[i].Name

\* threads_ = threads if threads else min(cpu_count() - 2, len(products))
Min(a, b) == IF a <= b THEN a ELSE b

PoolSize(thr, cpu, n) == IF thr # 0 THEN thr ELSE Min(cpu - 2, n)

Running == {i \in Recs : pc[i] \in {"token", "get", "open", "stream"}}

(* ------------------------------- Init ---------------------------------- *)

\* Frames of n rows: Ids are distinct (the row number), Names may repeat.
Frames ==
    UNION {{[i \in 1 .. n |-> [Id |-> i, Name |-> nm[i]]] :
                nm \in {f \in [1 .. n -> NameSet] : \A i \in 1 .. n : f[i] <= i}} :
           n \in 0 .. MaxRecords}

QIdle ==
    /\ qpc = "idle"
    /\ qargs = <<>>
    /\ query_str = <<>>
    /\ qanswer = "none"
    /\ qjson = EmptyFrame
    /\ qret = Return(EmptyFrame)

FIdle ==
    /\ fpc = "idle"
    /\ fkwargs = <<>>
    /\ fret = Return(EmptyFrame)

Init ==
    /\ products \in Frames
    /\ threads \in ThreadsArgs
    /\ main = "start"
    /\ threads_ = 0
    /\ raised = NoExc
    /\ queue = <<>>
    /\ pc = [i \in Recs |-> "new"]
    /\ attempts = [i \in Recs |-> 0]
    /\ exchanges = [i \in Recs |-> 0]
    /\ requests = [i \in Recs |-> 0]
    /\ token = [i \in Recs |-> 0]
    /\ resp = [i \in Recs |-> NoResp]
    /\ tokenExc = [i \in Recs |-> NoExc]
    /\ future = [i \in Recs |-> Pending]
    /\ fs = [f \in NameSet |-> NoFile]
    /\ pbar = 0
    /\ QIdle
    /\ FIdle

(* --------------------------- download_all ------------------------------ *)

\* Lines 170-189: the progress bar, prod_ids, threads_ and the creation of
\* the pool; ThreadPoolExecutor raises ValueError for max_workers <= 0.
CreatePool ==
    /\ main = "start"
    /\ \E cpu \in CpuCounts :
          /\ threads_' = PoolSize(threads, cpu, Len(products))
          /\ IF threads_' <= 0
                THEN /\ main' = "raised"
                     /\ raised' = Exc("ValueError", {})
                ELSE /\ main' = "submit"
                     /\ UNCHANGED raised
    /\ UNCHANGED <<products, threads, queue, pc, attempts, exchanges, requests,
                   token, resp, tokenExc, future, fs, pbar>>
    /\ UNCHANGED <<qvars, fvars>>

\* Lines 190-191: executor.submit for the next row of prod_ids; the Future
\* it returns is not kept.
Submit ==
    /\ main = "submit"
    /\ \E i \in Recs :
          /\ pc[i] = "new"
          /\ \A j \in Recs : j < i => pc[j] # "new"
          /\ pc' = [pc EXCEPT ![i] = "queued"]
          /\ queue' = Append(queue, i)
    /\ UNCHANGED <<products, threads, main, threads_, raised, attempts,
                   exchanges, requests, token, resp, tokenExc, future, fs, pbar>>
    /\ UNCHANGED <<qvars, fvars>>

\* Line 189, leaving the `with` block: once every row is submitted the
\* caller enters shutdown(wait=True).
EnterShutdown ==
    /\ main = "submit"
    /\ \A i \in Recs : pc[i] # "new"
    /\ main' = "shutdown"
    /\ UNCHANGED <<products, threads, threads_, raised, queue, pc, attempts,
                   exchanges, requests, token, resp, tokenExc, future, fs, pbar>>
    /\ UNCHANGED <<qvars, fvars>>

\* shutdown(wait=False): the caller does not wait for the workers.
PoolNotAwaited == TRUE

\* shutdown(wait=True) returns when the workers have drained the queue and
\* ended.
PoolDrained == queue = <<>> /\ Running = {}

\* Lines 189-194: the `with` block is left, pbar.close(), return None.
ExitPool ==
    /\ main = "shutdown"
    /\ PoolDrained
    /\ main' = "returned"
    /\ UNCHANGED <<products, threads, threads_, raised, queue, pc, attempts,
                   exchanges, requests, token, resp, tokenExc, future, fs, pbar>>
    /\ UNCHANGED <<qvars, fvars>>

(* -------------------- download_worker / download_by_id ----------------- *)

\* A pool thread takes the oldest work item and calls download_worker; at
\* most threads_ items run at once.
StartTask ==
    /\ queue # <<>>
    /\ Cardinality(Running) < threads_
    /\ LET i == Head(queue) IN
          /\ queue' = Tail(queue)
          /\ pc' = [pc EXCEPT ![i] = "token"]
          /\ attempts' = [attempts EXCEPT ![i] = @ + 1]
    /\ UNCHANGED <<products, threads, main, threads_, raised, exchanges,
                   requests, token, resp, tokenExc, future, fs, pbar>>
    /\ UNCHANGED <<qvars, fvars>>

\* A pool that drops the queued work items when a task fails.
EndTaskCancelling(i, e) ==
    /\ pc' = [pc EXCEPT ![i] = "done"]
    /\ future' = [future EXCEPT ![i] =
                     Finished(IF e = NoExc THEN NoExc ELSE WorkerError(OutFile(i), e))]
    /\ pbar' = pbar + 1
    /\ queue' = IF e = NoExc THEN queue ELSE <<>>

\* Lines 182-186: the call of download_by_id ended with exception e (NoExc:
\* it returned); the Future gets the outcome, the finally clause advances
\* the progress bar.  Nothing else of the pool is touched.
EndTask(i, e) ==
    /\ pc' = [pc EXCEPT ![i] = "done"]
    /\ future' = [future EXCEPT ![i] =
                     Finished(IF e = NoExc THEN NoExc ELSE WorkerError(OutFile(i), e))]
    /\ pbar' = pbar + 1
    /\ UNCHANGED queue

\* A download_by_id that reuses a token another task already holds instead
\* of asking for its own.
TokenStepCached(i) ==
    /\ pc[i] = "token"
    /\ IF \E j \in Recs : token[j] # 0
          THEN /\ token' = [token EXCEPT ![i] = token[CHOOSE j \in Recs : token[j] # 0]]
               /\ pc' = [pc EXCEPT ![i] = "get"]
               /\ UNCHANGED <<resp, exchanges, tokenExc, future, pbar, queue>>
          ELSE \E r \in TokenResponses :
                  /\ resp' = [resp EXCEPT ![i].token = r]
                  /\ exchanges' = [exchanges EXCEPT ![i] = @ + 1]
                  /\ tokenExc' = [tokenExc EXCEPT ![i] = GetAccessTokenExc(r)]
                  /\ IF GetAccessTokenExc(r) = NoExc
                        THEN /\ token' = [token EXCEPT ![i] = products[i].Id]
                             /\ pc' = [pc EXCEPT ![i] = "get"]
                             /\ UNCHANGED <<future, pbar, queue>>
                        ELSE /\ EndTask(i, GetAccessTokenExc(r))
                             /\ UNCHANGED token
    /\ UNCHANGED <<products, threads, main, threads_, raised, attempts,
                   requests, fs>>
    /\ UNCHANGED <<qvars, fvars>>

\* Line 139: access_token = self._get_access_token().
TokenStep(i) ==
    /\ pc[i] = "token"
    /\ \E r \in TokenResponses :
          /\ resp' = [resp EXCEPT ![i].token = r]
          /\ exchanges' = [exchanges EXCEPT ![i] = @ + 1]
          /\ tokenExc' = [tokenExc EXCEPT ![i] = GetAccessTokenExc(r)]
          /\ IF GetAccessTokenExc(r) = NoExc
                THEN /\ token' = [token EXCEPT ![i] = products[i].Id]
                     /\ pc' = [pc EXCEPT ![i] = "get"]
                     /\ UNCHANGED <<future, pbar, queue>>
                ELSE /\ EndTask(i, GetAccessTokenExc(r))
                     /\ UNCHANGED token
    /\ UNCHANGED <<products, threads, main, threads_, raised, attempts,
                   requests, fs>>
    /\ UNCHANGED <<qvars, fvars>>

\* Lines 140-148: the streamed GET with the bearer token; a status other
\* than 200 raises DownloadError.
GetStep(i) ==
    /\ pc[i] = "get"
    /\ \E s \in Statuses :
          /\ resp' = [resp EXCEPT ![i].status = s]
          /\ requests' = [requests EXCEPT ![i] = @ + 1]
          /\ IF s = HttpOk
                THEN /\ pc' = [pc EXCEPT ![i] = "open"]
                     /\ UNCHANGED <<future, pbar, queue>>
                ELSE EndTask(i, HttpError(s, products[i].Id))
    /\ UNCHANGED <<products, threads, main, threads_, raised, attempts,
                   exchanges, token, tokenExc, fs>>
    /\ UNCHANGED <<qvars, fvars>>

\* Line 151: open(str(out_path) + ".zip", "wb") creates or truncates the file.
OpenStep(i) ==
    /\ pc[i] = "open"
    /\ fs' = [fs EXCEPT ![OutFile(i)] = [exists |-> TRUE, data |-> <<>>]]
    /\ pc' = [pc EXCEPT ![i] = "stream"]
    /\ UNCHANGED <<products, threads, main, threads_, raised, queue, attempts,
                   exchanges, requests, token, resp, tokenExc, future, pbar>>
    /\ UNCHANGED <<qvars, fvars>>

\* Lines 155-159: the chunks are written; the stream either ends or breaks
\* after k chunks, which raises DownloadError.
StreamStep(i) ==
    /\ pc[i] = "stream"
    /\ \E k \in 0 .. Len(Body(products[i].Id)) :
          /\ fs' = [fs EXCEPT ![OutFile(i)].data = Written(products[i].Id, k)]
          /\ IF k = Len(Body(products[i].Id))
                THEN /\ resp' = [resp EXCEPT ![i].stream = "ok"]
                     /\ EndTask(i, NoExc)
                ELSE /\ resp' = [resp EXCEPT ![i].stream = "fail"]
                     /\ EndTask(i, StreamError(OutFile(i)))
    /\ UNCHANGED <<products, threads, main, threads_, raised, attempts,
                   exchanges, requests, token, tokenExc>>
    /\ UNCHANGED <<qvars, fvars>>

(* ------------------------- download: the claims ------------------------ *)

Failed(i) == future[i].state = "finished" /\ future[i].exc # NoExc

Succeeded(i) == future[i] = Finished(NoExc)

AllOk == [token |-> "ok", status |-> HttpOk, stream |-> "ok"]

RECURSIVE Sum(_, _)
Sum(f, S) == IF S = {} THEN 0
             ELSE LET x == CHOOSE y \in S : TRUE IN f[x] + Sum(f, S \ {x})

DistinctNames ==
    \A i, j \in Recs : i # j => products[i].Name # products[j].Name

\* C1: whatever subset of the downloads fails, every record's download_worker
\* is called exactly once by the time download_all returns, never more than
\* once at any time, and the only way download_all ends without returning
\* is the pool's ValueError, raised before any task exists: no failing task
\* aborts the batch.
C1_EveryTaskAttemptedOnce ==
    /\ \A i \in Recs : attempts[i] <= 1
    /\ main = "returned" => \A i \in Recs : attempts[i] = 1
    /\ main \in {"submit", "shutdown"} =>
          \A i \in Recs : Failed(i) => raised = NoExc
    /\ main = "raised" =>
          /\ raised.type = "ValueError"
          /\ \A i \in Recs : attempts[i] = 0 /\ future[i] = Pending

C1_Witness ==
    /\ main = "returned"
    /\ Len(products) >= 2
    /\ Failed(1)
    /\ Succeeded(2)
    /\ attempts[1] = 1 /\ attempts[2] = 1

Observed == IF main = "raised" THEN {raised} ELSE {}

C3_FailuresReported ==
    main \in {"returned", "raised"} =>
        \A i \in Recs : Failed(i) =>
            \E e \in Observed : e.type = "DownloadError"
                                /\ <<"name", products[i].Name>> \in e.mentions

\* C4: when download_all returns, every task it dispatched has finished and
\* the file of every record whose download succeeded exists.
C4_ReturnsAfterAllTasks ==
    main = "returned" =>
        /\ \A i \in Recs : pc[i] = "done" /\ future[i].state = "finished"
        /\ queue = <<>>
        /\ \A i \in Recs : Succeeded(i) => fs[products[i].Name].exists

C4_Witness ==
    /\ main = "returned"
    /\ Len(products) >= 2
    /\ \E i \in Recs : Succeeded(i) /\ fs[products[i].Name].exists
    /\ \E i \in Recs : Failed(i)

\* C5 as stated: the max_workers download_all hands to the pool is at least
\* 1 and at most the number of records.
C5_PoolSizeClamped ==
    main # "start" => threads_ >= 1 /\ threads_ <= Len(products)

\* C6: for records with distinct names, a batch run with 1 worker and a
\* batch run with as many workers as records end with the same set of
\* completely written files, whatever the interleaving: the set is the
\* names of the records the services answered without a fault.
CompleteFiles ==
    {f \in NameSet : fs[f].exists
        /\ \E i \in Recs : fs[f].data = Written(products[i].Id, Len(Body(products[i].Id)))}

ExpectedFiles == {products[i].Name : i \in {j \in Recs : resp[j] = AllOk}}

C6_SameFilesForOneAndNWorkers ==
    (/\ main \in {"returned", "raised"}
     /\ threads \in {1, Len(products)}
     /\ DistinctNames)
        => CompleteFiles = ExpectedFiles

C6_Witness ==
    /\ main = "returned"
    /\ Len(products) >= 2
    /\ threads = Len(products)
    /\ DistinctNames
    /\ \E i \in Recs : Succeeded(i)
    /\ \E i \in Recs : Failed(i)
    /\ CompleteFiles = ExpectedFiles
    /\ CompleteFiles # {}

\* C7: a download request answered with a status other than 200 ends its
\* task with a DownloadError that names the status and the product id; the
\* request was made once and one token exchange was made for the item, and
\* this stays so.
C7_Non200FailsTaskOnce ==
    \A i \in Recs :
        resp[i].status \notin {0, HttpOk} =>
            /\ pc[i] = "done"
            /\ future[i].state = "finished"
            /\ future[i].exc.type = "DownloadError"
            /\ <<"status", resp[i].status>> \in future[i].exc.mentions
            /\ <<"uid", products[i].Id>> \in future[i].exc.mentions
            /\ requests[i] = 1
            /\ exchanges[i] = 1
            /\ attempts[i] = 1

C7_Witness ==
    /\ main = "returned"
    /\ \E i \in Recs : resp[i].status = 401 /\ requests[i] = 1 /\ Failed(i)

\* C8 as stated: _get_access_token raises AuthorizationError for a transport
\* failure, a non-2xx status and a malformed body, lets no other exception
\* out and returns a token only for a well-formed 2xx answer.
C8_TokenFailuresAreAuthorizationErrors ==
    \A i \in Recs :
        /\ tokenExc[i].type \in {"none", "AuthorizationError"}
        /\ resp[i].token \in {"transport", "non2xx", "notjson", "nokey"} =>
              tokenExc[i].type = "AuthorizationError"
        /\ token[i] # 0 => resp[i].token = "ok"

(* ------------------------------ download_all spec --------------------- *)

Next ==
    \/ CreatePool
    \/ Submit
    \/ EnterShutdown
    \/ ExitPool
    \/ StartTask
    \/ \E i \in Recs : TokenStep(i)
    \/ \E i \in Recs : GetStep(i)
    \/ \E i \in Recs : OpenStep(i)
    \/ \E i \in Recs : StreamStep(i)

Spec == Init /\ [][Next]_vars

(* =============================== query ================================= *)

\* Largest number of products in one catalogue response.
MaxRows == 2

\* An optional argument is <<>> (None) or <<v>>.  Python's `if x:` takes
\* None, the empty string and 0 as false.
None == <<>>

TruthyStr(o) == o # None /\ o[1] # ""

TruthyInt(o) == o # None /\ o[1] # 0

\* f"{limit}" for the caps the model uses.
IntToStr(n) == CASE n = 0 -> "0" [] n = 5 -> "5" [] OTHER -> "?"

\* Sentinel1API.mission and the dates of the query.
Mission == "SENTINEL-1"
StartTime == "2023-01-01"
EndTime == "2023-01-15"

\* `any(prod_type in prod for prod in self.prod_types)` for Sentinel1API:
\* the strings that are substrings of a known product type, among the
\* product types the model passes.
ProdTypeKnown(t) == t \in {"", "GRD"}

\* A cell of the products frame: a number, a string, or NaN (no value).
Num(x) == [t |-> "num", n |-> x, s |-> ""]
Str(x) == [t |-> "str", n |-> 0, s |-> x]
NaN == [t |-> "nan", n |-> 0, s |-> ""]

\* The columns the model's products can have besides Attributes.
AllCols == {"Id", "Name", "cloudCover", "orbitDirection"}

\* The products the catalogue can return: Id, Name and the Attributes list.
RawProduct(id, name, attrs) == [Id |-> Num(id), Name |-> Str(name), Attributes |-> attrs]

Attr(name, value) == [Name |-> name, Value |-> value]

RawProducts ==
    { RawProduct(1, "P1", <<Attr("cloudCover", Num(10)), Attr("orbitDirection", Str("ASCENDING"))>>),
      RawProduct(2, "P2", <<Attr("cloudCover", Num(50)), Attr("orbitDirection", Str("DESCENDING"))>>),
      RawProduct(3, "P3", <<Attr("orbitDirection", Str("ASCENDING"))>>) }

RECURSIVE SeqsUpTo(_, _)
SeqsUpTo(S, n) ==
    IF n = 0 THEN {<<>>}
    ELSE LET shorter == SeqsUpTo(S, n - 1) IN
         shorter \cup {Append(q, x) : q \in {r \in shorter : Len(r) = n - 1}, x \in S}

\* What the catalogue can answer to the GET: a transport failure, a body
\* that is not JSON, a JSON object without "value", a JSON array, or an
\* object whose "value" is a list of products.
CatalogFaults == {"transport", "notjson", "novalue", "list"}

\* pd.DataFrame.from_dict(json["value"]): one row per product, the columns
\* are the top-level keys; no product, no column.
FromDict(value) ==
    [cols |-> IF value = <<>> THEN {} ELSE {"Id", "Name", "Attributes"},
     rows |-> value]

\* __add_attrs_to_df: every attribute becomes a field of the product, over
\* a top-level field of the same name.
RECURSIVE AddAttrs(_, _)
AddAttrs(row, attrs) ==
    IF attrs = <<>> THEN row
    ELSE AddAttrs([row EXCEPT ![Head(attrs).Name] = Head(attrs).Value], Tail(attrs))

NormalRow(p) ==
    AddAttrs([c \in AllCols |-> CASE c = "Id" -> p.Id [] c = "Name" -> p.Name [] OTHER -> NaN],
             p.Attributes)

AttrNames(p) == {p.Attributes[k].Name : k \in 1 .. Len(p.Attributes)}

\* products.apply(self.__add_attrs_to_df, axis=1): the columns of the
\* result are the union of the fields of the rows.
Normalize(frame) ==
    [cols |-> frame.cols \cup UNION {AttrNames(frame.rows[k]) : k \in 1 .. Len(frame.rows)},
     rows |-> [k \in 1 .. Len(frame.rows) |-> NormalRow(frame.rows[k])]]

\* A filter_by_cloud_cover whose upper bound is exclusive.
FilterByCloudCoverStrict(frame, lo, hi) ==
    IF "cloudCover" \notin frame.cols
    THEN Raise("AttributeNotFoundError", {<<"key", "cloudCover">>})
    ELSE Return([frame EXCEPT !.rows =
            SelectSeq(frame.rows,
                      LAMBDA r : r["cloudCover"].t = "num"
                                 /\ r["cloudCover"].n >= lo.n
                                 /\ r["cloudCover"].n < hi.n)])

\* filter_by_cloud_cover: rows whose cloudCover lies in [min, max]; a
\* comparison with NaN is false; a missing column is a KeyError.
FilterByCloudCover(frame, lo, hi) ==
    IF "cloudCover" \notin frame.cols
    THEN Raise("AttributeNotFoundError", {<<"key", "cloudCover">>})
    ELSE Return([frame EXCEPT !.rows =
            SelectSeq(frame.rows,
                      LAMBDA r : r["cloudCover"].t = "num"
                                 /\ r["cloudCover"].n >= lo.n
                                 /\ r["cloudCover"].n <= hi.n)])

\* A _filter_by_attrs that takes a missing column as "no row matches".
FilterByAttrsNoMatch(frame, attribute, values) ==
    IF attribute \notin frame.cols
    THEN Return([frame EXCEPT !.rows = <<>>])
    ELSE Return([frame EXCEPT !.rows =
            SelectSeq(frame.rows,
                      LAMBDA r : \E k \in 1 .. Len(values) : values[k] = r[attribute])])

\* _filter_by_attrs: rows whose attribute is one of the values (isin).
FilterByAttrs(frame, attribute, values) ==
    IF attribute \notin frame.cols
    THEN Raise("AttributeNotFoundError", {<<"key", attribute>>})
    ELSE Return([frame EXCEPT !.rows =
            SelectSeq(frame.rows,
                      LAMBDA r : \E k \in 1 .. Len(values) : values[k] = r[attribute])])

\* filter_by_attributes: the predicates of kwargs, one after the other, in
\* the order given; the first exception ends the call.
RECURSIVE FilterByAttributes(_, _)
FilterByAttributes(frame, kwargs) ==
    IF kwargs = <<>> THEN Return(frame)
    ELSE LET key == Head(kwargs).key
             val == Head(kwargs).val
             one == IF key = "cloudCover"
                    THEN IF Len(val) # 2
                         THEN Raise("ValueError", {<<"key", key>>})
                         ELSE FilterByCloudCover(frame, val[1], val[2])
                    ELSE FilterByAttrs(frame, key, val)
         IN IF one.exc # NoExc THEN one
            ELSE FilterByAttributes(one.value, Tail(kwargs))

Pred(key, val) == [key |-> key, val |-> val]

\* The **kwargs a query is called with.
KwargsSet ==
    { <<>>,
      <<Pred("orbitDirection", <<Str("ASCENDING")>>)>>,
      <<Pred("cloudCover", <<Num(20), Num(60)>>)>>,
      <<Pred("relativeOrbit", <<Num(1)>>)>> }

\* The arguments of a query call.
QueryArgs ==
    [prod_type : {None, <<"">>, <<"GRD">>, <<"XYZ">>},
     exclude   : {None, <<"">>, <<"COG">>},
     footprint : {None, <<"">>, <<"POLYGON">>},
     orderby   : {None, <<"">>, <<"asc">>},
     limit     : {None, <<0>>, <<5>>},
     kwargs    : KwargsSet]

Clause(kind, arg) == <<kind, arg>>

\* A _build_query that appends the sort order before the spatial filter.
BuildQuerySortFirst(a) ==
    <<Clause("Collection/Name eq", Mission),
      Clause("ContentDate/Start gt", StartTime),
      Clause("ContentDate/Start lt", EndTime)>>
    \o (IF TruthyStr(a.prod_type) THEN <<Clause("contains", a.prod_type[1])>> ELSE <<>>)
    \o (IF TruthyStr(a.exclude) THEN <<Clause("not contains", a.exclude[1])>> ELSE <<>>)
    \o (IF TruthyStr(a.orderby) THEN <<Clause("$orderby", a.orderby[1])>> ELSE <<>>)
    \o (IF TruthyStr(a.footprint) THEN <<Clause("OData.CSC.Intersects", a.footprint[1])>> ELSE <<>>)
    \o (IF TruthyInt(a.limit) THEN <<Clause("$top", IntToStr(a.limit[1]))>> ELSE <<>>)
    \o <<Clause("$expand", "Attributes")>>

\* _build_query: the query string as the sequence of its clauses.
BuildQuery(a) ==
    <<Clause("Collection/Name eq", Mission),
      Clause("ContentDate/Start gt", StartTime),
      Clause("ContentDate/Start lt", EndTime)>>
    \o (IF TruthyStr(a.prod_type) THEN <<Clause("contains", a.prod_type[1])>> ELSE <<>>)
    \o (IF TruthyStr(a.exclude) THEN <<Clause("not contains", a.exclude[1])>> ELSE <<>>)
    \o (IF TruthyStr(a.footprint) THEN <<Clause("OData.CSC.Intersects", a.footprint[1])>> ELSE <<>>)
    \o (IF TruthyStr(a.orderby) THEN <<Clause("$orderby", a.orderby[1])>> ELSE <<>>)
    \o (IF TruthyInt(a.limit) THEN <<Clause("$top", IntToStr(a.limit[1]))>> ELSE <<>>)
    \o <<Clause("$expand", "Attributes")>>

\* Lines 92-108 of query: the notice for an unknown product type, the
\* normalisation, and the attribute filter, whose exceptions are wrapped.
FinishQuery(a, frame) ==
    IF frame.rows = <<>> /\ TruthyStr(a.prod_type) /\ ~ProdTypeKnown(a.prod_type[1])
    THEN Return(frame)
    ELSE LET normal == Normalize(frame) IN
         IF a.kwargs = <<>> THEN Return(normal)
         ELSE LET f == FilterByAttributes(normal, a.kwargs) IN
              IF f.exc # NoExc
              THEN Raise("FilterByAttributeError",
                         {<<"class", f.exc.type>>} \cup f.exc.mentions)
              ELSE Return(f.value)

DlIdle ==
    /\ products = <<>>
    /\ threads = DefaultThreads
    /\ main = "idle"
    /\ threads_ = 0
    /\ raised = NoExc
    /\ queue = <<>>
    /\ pc = <<>>
    /\ attempts = <<>>
    /\ exchanges = <<>>
    /\ requests = <<>>
    /\ token = <<>>
    /\ resp = <<>>
    /\ tokenExc = <<>>
    /\ future = <<>>
    /\ fs = [f \in NameSet |-> NoFile]
    /\ pbar = 0

InitQuery ==
    /\ DlIdle
    /\ qpc = "call"
    /\ qargs \in QueryArgs
    /\ query_str = <<>>
    /\ qanswer = "none"
    /\ qjson = EmptyFrame
    /\ qret = Return(EmptyFrame)
    /\ FIdle

\* Lines 76-84: query_str = self._build_query(...).
QBuild ==
    /\ qpc = "call"
    /\ query_str' = BuildQuery(qargs)
    /\ qpc' = "request"
    /\ UNCHANGED <<qargs, qanswer, qjson, qret>>
    /\ UNCHANGED <<dlvars, fvars>>

\* Lines 86-91: the GET and .json() inside the try, json["value"] and
\* DataFrame.from_dict outside it.
QRequest ==
    /\ qpc = "request"
    /\ \/ \E fault \in CatalogFaults :
             /\ qret' = CASE fault = "transport" ->
                               Raise("QueryError", {<<"class", "ConnectionError">>})
                          [] fault = "notjson" ->
                               Raise("QueryError", {<<"class", "JSONDecodeError">>})
                          [] fault = "novalue" ->
                               Raise("KeyError", {<<"key", "value">>})
                          [] OTHER ->
                               Raise("TypeError", {})
             /\ qanswer' = fault
             /\ qpc' = "done"
             /\ UNCHANGED qjson
       \/ \E value \in SeqsUpTo(RawProducts, MaxRows) :
             /\ qanswer' = "value"
             /\ qjson' = FromDict(value)
             /\ qpc' = "frame"
             /\ UNCHANGED qret
    /\ UNCHANGED <<qargs, query_str>>
    /\ UNCHANGED <<dlvars, fvars>>

\* Lines 92-108: the rest of query.
QFinish ==
    /\ qpc = "frame"
    /\ qret' = FinishQuery(qargs, qjson)
    /\ qpc' = "done"
    /\ UNCHANGED <<qargs, query_str, qanswer, qjson>>
    /\ UNCHANGED <<dlvars, fvars>>

(* --------------------------- query: the claims ------------------------- *)

\* C9 as stated: a query whose catalogue response is malformed (not JSON,
\* or parsed JSON without the top-level "value" key) ends with a QueryError
\* and with no result.
C9_MalformedResponseIsQueryError ==
    (qpc = "done" /\ qanswer \in {"notjson", "novalue", "list"}) =>
        /\ qret.exc.type = "QueryError"
        /\ qret.value = EmptyFrame

\* The clause kinds of a query string, in order.
Kinds(q) == [k \in 1 .. Len(q) |-> q[k][1]]

When(present, kind) == IF present THEN <<kind>> ELSE <<>>

\* C10 as stated: the query string is the mission clause, the two date
\* bounds, one clause for every optional criterion that was given, in the
\* order type, exclusion, spatial, sort, cap, none for a criterion that was
\* not given, and the attribute expansion last.
C10_ClausesOfPresentCriteriaInOrder ==
    qpc # "call" =>
        Kinds(query_str) =
            <<"Collection/Name eq", "ContentDate/Start gt", "ContentDate/Start lt">>
            \o When(qargs.prod_type # None, "contains")
            \o When(qargs.exclude # None, "not contains")
            \o When(qargs.footprint # None, "OData.CSC.Intersects")
            \o When(qargs.orderby # None, "$orderby")
            \o When(qargs.limit # None, "$top")
            \o <<"$expand">>

\* C10 amended: the same, where a criterion counts as given when Python
\* takes it as true: not None, not the empty string, not the cap 0.  A
\* criterion given as "" or as 0 contributes no clause.
C10_ClausesOfTruthyCriteriaInOrder ==
    qpc # "call" =>
        Kinds(query_str) =
            <<"Collection/Name eq", "ContentDate/Start gt", "ContentDate/Start lt">>
            \o When(TruthyStr(qargs.prod_type), "contains")
            \o When(TruthyStr(qargs.exclude), "not contains")
            \o When(TruthyStr(qargs.footprint), "OData.CSC.Intersects")
            \o When(TruthyStr(qargs.orderby), "$orderby")
            \o When(TruthyInt(qargs.limit), "$top")
            \o <<"$expand">>

C10_Witness ==
    /\ qpc = "request"
    /\ qargs.prod_type = <<"GRD">>
    /\ qargs.exclude = None
    /\ qargs.footprint = <<"POLYGON">>
    /\ qargs.orderby = <<"asc">>
    /\ qargs.limit = <<0>>
    /\ Kinds(query_str) =
          <<"Collection/Name eq", "ContentDate/Start gt", "ContentDate/Start lt",
            "contains", "OData.CSC.Intersects", "$orderby", "$expand">>

(* ------------------------------ query spec ----------------------------- *)

NextQuery ==
    \/ QBuild
    \/ QRequest
    \/ QFinish

SpecQuery == InitQuery /\ [][NextQuery]_vars

(* ================== filter_by_attributes, called directly ============== *)

\* Largest number of predicates of a direct filter_by_attributes call.
MaxPreds == 2

\* The predicates a caller can pass: ranges of cloudCover (one of them with
\* min > max, one with a single bound), value sets of attributes the
\* products have, of a top-level field, and of an attribute no product has.
PredPool ==
    { Pred("cloudCover", <<Num(20), Num(60)>>),
      Pred("cloudCover", <<Num(10), Num(50)>>),
      Pred("cloudCover", <<Num(60), Num(20)>>),
      Pred("cloudCover", <<Num(5)>>),
      Pred("orbitDirection", <<Str("ASCENDING")>>),
      Pred("orbitDirection", <<Str("ASCENDING"), Str("DESCENDING")>>),
      Pred("orbitDirection", <<>>),
      Pred("Id", <<Num(1), Str("2")>>),
      Pred("Name", <<Str("P2")>>),
      Pred("relativeOrbit", <<Num(1)>>) }

\* **kwargs is a mapping: its keys are distinct, its order is the caller's.
FilterKwargs ==
    {kw \in SeqsUpTo(PredPool, MaxPreds) :
        \A i, j \in 1 .. Len(kw) : i # j => kw[i].key # kw[j].key}

\* The query calls after which the caller filters the result itself.
FilterQueryArgs ==
    {a \in QueryArgs : /\ a.prod_type \in {None, <<"XYZ">>}
                       /\ a.exclude = None
                       /\ a.footprint = None
                       /\ a.orderby = None
                       /\ a.limit = None}

InitFilter ==
    /\ DlIdle
    /\ qpc = "call"
    /\ qargs \in FilterQueryArgs
    /\ query_str = <<>>
    /\ qanswer = "none"
    /\ qjson = EmptyFrame
    /\ qret = Return(EmptyFrame)
    /\ FIdle

\* products = api.query(...); filter_by_attributes(products, **filters):
\* the caller filters the frame a query returned.
FCall ==
    /\ qpc = "done"
    /\ qret.exc = NoExc
    /\ fpc = "idle"
    /\ \E kw \in FilterKwargs :
          /\ fkwargs' = kw
          /\ fret' = FilterByAttributes(qret.value, kw)
    /\ fpc' = "done"
    /\ UNCHANGED <<dlvars, qvars>>

(* --------------------------- filter: the claims ------------------------ *)

\* Every key of the predicates is a column of the frame.
KeysExist(frame, kw) == \A k \in 1 .. Len(kw) : kw[k].key \in frame.cols

\* A cloudCover predicate is a pair [min, max].
RangesArePairs(kw) ==
    \A k \in 1 .. Len(kw) : kw[k].key = "cloudCover" => Len(kw[k].val) = 2

\* A record satisfies a predicate: its cloudCover is a number within the
\* inclusive range, or its value for the key is one of the values.
Satisfies(r, p) ==
    IF p.key = "cloudCover"
    THEN /\ r["cloudCover"].t = "num"
         /\ p.val[1].n <= r["cloudCover"].n
         /\ r["cloudCover"].n <= p.val[2].n
    ELSE r[p.key] \in {p.val[k] : k \in 1 .. Len(p.val)}

\* The records that satisfy every predicate, in their input order.
SatisfyingRows(rows, kw) ==
    SelectSeq(rows, LAMBDA r : \A k \in 1 .. Len(kw) : Satisfies(r, kw[k]))

\* query reaches its attribute filter: it got products, did not return
\* early on an empty result of an unknown product type, and has predicates.
QueryFilters ==
    /\ qpc = "done"
    /\ qanswer = "value"
    /\ qargs.kwargs # <<>>
    /\ ~(qjson.rows = <<>> /\ TruthyStr(qargs.prod_type)
         /\ ~ProdTypeKnown(qargs.prod_type[1]))

\* C11: for every frame and every mapping of predicates whose keys are
\* columns of the frame (a cloudCover predicate being a pair [min, max]),
\* filter_by_attributes returns the frame's columns and exactly the rows
\* that satisfy every predicate, in their input order, when it is called
\* directly and when query calls it.
C11_FilterReturnsExactlySatisfyingRows ==
    /\ (fpc = "done" /\ KeysExist(qret.value, fkwargs) /\ RangesArePairs(fkwargs)) =>
          /\ fret.exc = NoExc
          /\ fret.value.cols = qret.value.cols
          /\ fret.value.rows = SatisfyingRows(qret.value.rows, fkwargs)
    /\ (QueryFilters /\ KeysExist(Normalize(qjson), qargs.kwargs)
                     /\ RangesArePairs(qargs.kwargs)) =>
          /\ qret.exc = NoExc
          /\ qret.value.rows = SatisfyingRows(Normalize(qjson).rows, qargs.kwargs)

C11_Witness ==
    /\ fpc = "done"
    /\ Len(qret.value.rows) = 2
    /\ qret.value.rows[1]["Id"] = Num(2)
    /\ qret.value.rows[2]["Id"] = Num(1)
    /\ fkwargs = <<Pred("cloudCover", <<Num(10), Num(50)>>),
                   Pred("orbitDirection", <<Str("ASCENDING"), Str("DESCENDING")>>)>>
    /\ fret.exc = NoExc
    /\ fret.value.rows = qret.value.rows

\* Some predicate is on a key that is no column of the frame: no record
\* has the attribute.
HasAbsentKey(frame, kw) == \E k \in 1 .. Len(kw) : kw[k].key \notin frame.cols

\* C12 as stated: a predicate on a key absent from every record ends the
\* filter request with an AttributeNotFoundError that names the key, for a
\* direct call of filter_by_attributes and for a predicate passed through
\* query, and never with a result.
C12_AbsentKeyIsAttributeNotFoundError ==
    /\ (fpc = "done" /\ HasAbsentKey(qret.value, fkwargs)) =>
          /\ fret.exc.type = "AttributeNotFoundError"
          /\ \E k \in 1 .. Len(fkwargs) :
                /\ fkwargs[k].key \notin qret.value.cols
                /\ <<"key", fkwargs[k].key>> \in fret.exc.mentions
    /\ (qpc = "done" /\ qanswer = "value"
            /\ HasAbsentKey(Normalize(qjson), qargs.kwargs)) =>
          /\ qret.exc.type = "AttributeNotFoundError"
          /\ \E k \in 1 .. Len(qargs.kwargs) :
                /\ qargs.kwargs[k].key \notin Normalize(qjson).cols
                /\ <<"key", qargs.kwargs[k].key>> \in qret.exc.mentions

\* The first predicate, in the order of the mapping, that cannot be
\* applied: a cloudCover predicate that is no pair, or a key that is no
\* column; and the error it ends the call with.
Inapplicable(frame, p) ==
    \/ p.key = "cloudCover" /\ Len(p.val) # 2
    \/ p.key \notin frame.cols

FirstInapplicable(frame, kw) ==
    kw[CHOOSE k \in 1 .. Len(kw) :
          /\ Inapplicable(frame, kw[k])
          /\ \A j \in 1 .. k - 1 : ~Inapplicable(frame, kw[j])]

ErrorOf(frame, p) ==
    IF p.key = "cloudCover" /\ Len(p.val) # 2
    THEN Exc("ValueError", {<<"key", p.key>>})
    ELSE Exc("AttributeNotFoundError", {<<"key", p.key>>})

\* C12 amended: a predicate on a key absent from every record makes the
\* filter request fail with no result.  A direct call of
\* filter_by_attributes raises the error of the first predicate that
\* cannot be applied: an AttributeNotFoundError naming the key when that is
\* the predicate on the absent key, a ValueError when a cloudCover
\* predicate that is no pair comes before it.  Passed through query, the
\* error is raised as a FilterByAttributeError whose message names the
\* class of the original error (AttributeNotFoundError) and the key; a
\* query that gets no product for an unknown product type returns the
\* empty result before it filters.
C12_AbsentKeyFailsTheRequest ==
    /\ (fpc = "done" /\ HasAbsentKey(qret.value, fkwargs)) =>
          /\ fret.exc = ErrorOf(qret.value, FirstInapplicable(qret.value, fkwargs))
          /\ fret.value = EmptyFrame
    /\ (QueryFilters /\ HasAbsentKey(Normalize(qjson), qargs.kwargs)) =>
          LET e == ErrorOf(Normalize(qjson),
                           FirstInapplicable(Normalize(qjson), qargs.kwargs))
          IN /\ qret.exc.type = "FilterByAttributeError"
             /\ qret.exc.mentions = {<<"class", e.type>>} \cup e.mentions
             /\ qret.value = EmptyFrame
    /\ (qpc = "done" /\ qanswer = "value" /\ qargs.kwargs # <<>> /\ ~QueryFilters) =>
          qret = Return(qjson)

C12_Witness ==
    /\ fpc = "done"
    /\ Len(qret.value.rows) = 2
    /\ "orbitDirection" \in qret.value.cols
    /\ fkwargs = <<Pred("orbitDirection", <<Str("ASCENDING")>>),
                   Pred("relativeOrbit", <<Num(1)>>)>>
    /\ fret.exc = Exc("AttributeNotFoundError", {<<"key", "relativeOrbit">>})
    /\ fret.value = EmptyFrame

(* ------------------------------ filter spec ---------------------------- *)

NextFilter ==
    \/ QBuild
    \/ QRequest
    \/ QFinish
    \/ FCall

SpecFilter == InitFilter /\ [][NextFilter]_vars

====
